---------------------------- MODULE Spec2Model ----------------------------
(*************************************************************************)
(* Model of the LakeSoul metadata Parquet format                         *)
(* (rust/lakesoul-datafusion/src/datasource/file_format/                 *)
(* metadata_format.rs): the write sink LakeSoulHashSinkExec with its     *)
(* writer tasks (pull_and_sink), its commit coordinator                  *)
(* (wait_for_commit) and its one-item output stream (execute), and the   *)
(* scan planner (create_physical_plan).                                  *)
(*                                                                       *)
(* Strings are modelled as sequences of tokens, so that formatting       *)
(* (format!, to_string) is concatenation and can collide or not.         *)
(*************************************************************************)
EXTENDS Integers, Sequences, FiniteSets, TLC

(*************************************************************************)
(* Bounds of the model.                                                  *)
(*************************************************************************)
\* most upstream (input) partitions of the sink, one writer task each
NumParts == 2
\* longest upstream stream of one partition, in batches
MaxBatches == 2
\* most rows in one upstream batch
MaxRows == 2
\* most file fragments of one scan
MaxFragments == 2
\* most rows in one file fragment
MaxFragRows == 1
\* largest primary key value in a fragment
MaxKey == 2
\* longest input of a ProjectionStream, in items
MaxItems == 2
\* most rows in one batch given to a ProjectionStream
MaxProjRows == 2

(*************************************************************************)
(* Program constants.                                                    *)
(*************************************************************************)
\* u64::MAX, the failure marker of the sink's result row.  It stands for
\* 2^64 - 1; the value written is the largest integer TLC represents.
U64_MAX == 2147483647
\* the width of the zero padded partition index in a file name, {:0>4}
PadWidth == 4

\* values of the range partition column of the modelled table
PartVals == {"us", "eu"}
\* the range partition column of the modelled table
RangeCol == "region"
\* table_info.table_path
TablePath == "s3://t"
\* the random per-write identifier: 16 alphanumeric characters, one token
WriteIds == {"k3Zq8Lw0Xy5Tn2Vb"}
\* InsertOp of the FileSinkConfig
InsertOps == {"Append", "Overwrite", "Replace"}

Parts == 0 .. (NumParts - 1)
NoTask == -1
Coord == NumParts

(*************************************************************************)
(* Errors and their Display.                                             *)
(*************************************************************************)
DFError(variant, text) == [variant |-> variant, text |-> text]

\* impl Display for DataFusionError: a prefix naming the variant, then
\* the description.
ErrorToString(e) ==
    CASE e.variant = "Execution" -> <<"Execution error: ">> \o e.text
      [] e.variant = "External" -> <<"External error: ">> \o e.text
      [] e.variant = "NotImplemented" ->
             <<"This feature is not implemented: ">> \o e.text
      [] e.variant = "JoinError" -> e.text

UpstreamError == DFError("Execution", <<"upstream failed">>)
WriterError == DFError("External", <<"io failed">>)
CatalogError == <<"commit failed">>
JoinErrorPanic == DFError("JoinError", <<"task panicked">>)

(*************************************************************************)
(* PartitionDescriptor codec (lakesoul_io::helpers).                     *)
(*************************************************************************)
\* columnar values of a batch: the values of the range columns, taken
\* from row k of the batch
ColumnarValuesAt(batch, k) == <<<<RangeCol, batch[k].region>>>>

\* columnar_values_to_partition_desc
columnar_values_to_partition_desc(cv) == <<cv[1][1], "=", cv[1][2]>>

\* columnar_values_to_sub_path
columnar_values_to_sub_path(cv) == <<"/", cv[1][1], "=", cv[1][2], "/">>

Descs == { columnar_values_to_partition_desc(<<<<RangeCol, v>>>>) : v \in PartVals }

RECURSIVE Digits(_)
\* decimal digits of a natural number
Digits(n) ==
    IF n < 10 THEN <<n>> ELSE Digits(n \div 10) \o <<n % 10>>

RECURSIVE PadLeft(_, _)
\* {:0>w}: pad with zeros on the left up to width w, never truncate
PadLeft(s, w) == IF Len(s) >= w THEN s ELSE PadLeft(<<0>> \o s, w)

\* FileAbsolutePath without the partition index
FileAbsolutePathNoIndex(cv, wid, partition) ==
    <<TablePath>> \o columnar_values_to_sub_path(cv) \o <<"part-", wid>>
        \o <<".parquet">>

\* format!("{}{}part-{}_{:0>4}.parquet", table_path, sub_path, write_id, partition)
FileAbsolutePath(cv, wid, partition) ==
    <<TablePath>> \o columnar_values_to_sub_path(cv) \o <<"part-", wid, "_">>
        \o PadLeft(Digits(partition), PadWidth) \o <<".parquet">>


(*************************************************************************)
(* State.                                                                *)
(*************************************************************************)
VARIABLES
    num_input_partitions, \* partition_count() of the sink's input plan
    insert_op,          \* conf.insert_op of the write request, "none" before it
    sink,               \* "none", "built" (LakeSoulHashSinkExec), "rejected", "failed"
    execute_result,     \* "none", "stream" (Ok) or "err" of the last execute call
    write_id,           \* the random identifier of the write invocation
    pc,                 \* position of each writer task
    fetched,            \* batches each task has pulled from its upstream partition
    batch,              \* the batch a task is handling, <<>> if none
    partition_desc,     \* the descriptor computed for that batch
    file_absolute_path, \* the path computed for that batch
    partitioned_writer, \* per task: descriptor -> open writer
    row_count,          \* per task: rows handed to writers
    join_result,        \* per task: what its JoinHandle yields
    first_failed,       \* history: the task whose failure came first in time
    lock,               \* holder of the accumulator's Mutex: NoTask, a task or Coord
    locked_desc,        \* per task: the descriptor of the writer being merged
    acc,                \* partitioned_file_path_and_row_count
    created,            \* storage: paths for which a writer was opened
    closed,             \* storage: paths flushed and closed successfully
    cpc,                \* position of the coordinator task (wait_for_commit)
    count,              \* the coordinator's folded row count
    pending,            \* descriptors the coordinator's loop has not visited
    coord_result,       \* what the coordinator's JoinHandle yields
    calls,              \* catalog: the commit_data calls issued, in order
    committed,          \* catalog: the commits that returned successfully
    output,             \* items the sink's output stream has yielded
    stream_ended,       \* the output stream has returned None
    spc,                \* position of the scan planner (create_physical_plan)
    scan_conf,          \* the inputs of the planning call
    frag_idx,           \* the next element of flatten_conf to visit
    inputs_map,         \* descriptor -> the scans of its fragments
    column_nullable,    \* names of the fields nullable in some fragment
    merged_schema,      \* the schema handed to MergeParquetExec
    exec,               \* the plan built so far
    scan_output,        \* the rows the returned plan produces when run
    ppc,                \* ProjectionStream: "idle", "open" or "ended"
    projection_stream,  \* its fields schema and expr, <<>> before it exists
    proj_input,         \* the items its input stream has yet to yield
    proj_polled,        \* history: the items its input has yielded
    proj_yielded,       \* history: what its poll_next has returned as Ready
    last_poll           \* "none", "Pending" or "Ready": the last poll_next

planVars == <<num_input_partitions, insert_op, sink, execute_result, write_id>>
taskVars == <<pc, fetched, batch, partition_desc, file_absolute_path,
              partitioned_writer, row_count, join_result, first_failed,
              locked_desc>>
sharedVars == <<lock, acc, created, closed>>
coordVars == <<cpc, count, pending, coord_result, calls, committed>>
streamVars == <<output, stream_ended>>
scanVars == <<spc, scan_conf, frag_idx, inputs_map, column_nullable,
              merged_schema, exec, scan_output>>
writeVars == <<planVars, taskVars, sharedVars, coordVars, streamVars>>
projVars == <<ppc, projection_stream, proj_input, proj_polled, proj_yielded,
              last_poll>>

\* for i in 0..num_input_partitions
InputParts == 0 .. (num_input_partitions - 1)

NoResult == [kind |-> "none"]
OkResult(n) == [kind |-> "ok", count |-> n]
ErrResult(e) == [kind |-> "err", error |-> e]
\* a JoinError: the task panicked
PanicResult == [kind |-> "panic", error |-> JoinErrorPanic]

EmptyMap == [d \in {} |-> 0]

WriteInit ==
    /\ num_input_partitions = 0
    /\ insert_op = "none"
    /\ sink = "none"
    /\ execute_result = "none"
    /\ write_id = "none"
    /\ pc = [i \in Parts |-> "unspawned"]
    /\ fetched = [i \in Parts |-> 0]
    /\ batch = [i \in Parts |-> <<>>]
    /\ partition_desc = [i \in Parts |-> <<>>]
    /\ file_absolute_path = [i \in Parts |-> <<>>]
    /\ partitioned_writer = [i \in Parts |-> EmptyMap]
    /\ row_count = [i \in Parts |-> 0]
    /\ join_result = [i \in Parts |-> NoResult]
    /\ first_failed = NoTask
    /\ lock = NoTask
    /\ locked_desc = [i \in Parts |-> <<>>]
    /\ acc = EmptyMap
    /\ created = {}
    /\ closed = {}
    /\ cpc = "unspawned"
    /\ count = 0
    /\ pending = {}
    /\ coord_result = NoResult
    /\ calls = <<>>
    /\ committed = {}
    /\ output = <<>>
    /\ stream_ended = FALSE

(*************************************************************************)
(* Planning the write: create_writer_physical_plan.                      *)
(*************************************************************************)
\* RejectsInsertOp without the check
RejectsNothing(op) == FALSE

\* Overwrite is rejected before LakeSoulHashSinkExec::new is called.
RejectsInsertOp(op) == op = "Overwrite"

CreateWriterPhysicalPlan(op) ==
    /\ sink = "none"
    /\ insert_op' = op
    /\ \E n \in 0..NumParts : num_input_partitions' = n
    /\ IF RejectsInsertOp(op)
       THEN sink' = "rejected"
       ELSE \/ sink' = "built"
            \* LakeSoulHashSinkExec::new: parse_table_info_partitions failed
            \/ sink' = "failed"
    /\ UNCHANGED <<execute_result, write_id, taskVars, sharedVars, coordVars,
                   streamVars>>
    /\ UNCHANGED <<scanVars, projVars>>

(*************************************************************************)
(* LakeSoulHashSinkExec::execute.                                        *)
(*************************************************************************)
\* execute(partition, context): partition 0 spawns one pull_and_sink task
\* per input partition and the wait_for_commit task, and returns the
\* stream; another partition returns an error and spawns nothing.
Execute(partition) ==
    /\ sink = "built"
    /\ execute_result = "none"
    /\ IF partition # 0
       THEN /\ execute_result' = "err"
            /\ UNCHANGED <<write_id, pc, cpc>>
       ELSE /\ execute_result' = "stream"
            /\ \E w \in WriteIds : write_id' = w
            /\ pc' = [i \in Parts |->
                        IF i \in InputParts THEN "start" ELSE "unspawned"]
            /\ cpc' = "join"
    /\ UNCHANGED <<num_input_partitions, insert_op, sink, fetched, batch, partition_desc,
                   file_absolute_path, partitioned_writer, row_count,
                   join_result, first_failed, locked_desc, sharedVars, count, pending,
                   coord_result, calls, committed, streamVars>>
    /\ UNCHANGED <<scanVars, projVars>>

(*************************************************************************)
(* A writer task: LakeSoulHashSinkExec::pull_and_sink.                   *)
(*************************************************************************)
\* the batches upstream partition i can yield as its n-th batch: 1..MaxRows
\* rows, each with a value of the range column; b and k identify the row
UpstreamBatches(n) ==
    UNION { { [k \in 1..len |-> [b |-> n, k |-> k, region |-> f[k]]] :
                f \in [1..len -> PartVals] } : len \in 1..MaxRows }

\* batch.project(&schema_projection_excluding_range): the range column is
\* dropped from the payload.  origin is a ghost field: the value the row
\* had in the dropped column.
BatchExcludingRange(rows) ==
    [k \in 1..Len(rows) |-> [b |-> rows[k].b, k |-> rows[k].k,
                             origin |-> rows[k].region]]

\* MultiPartAsyncWriter::try_new_with_context with files = [path]
NewWriter(path) == [path |-> path, rows |-> <<>>, num_rows |-> 0]

\* MultiPartAsyncWriter::write_record_batch
WriterWrite(w, rows) ==
    [w EXCEPT !.rows = @ \o rows, !.num_rows = @ + Len(rows)]

\* MultiPartAsyncWriter::absolute_path
absolute_path(w) == w.path

\* MultiPartAsyncWriter::nun_rows
nun_rows(w) == w.num_rows

\* AccumulatorUpdate taking the insert branch also when the entry exists
AccumulatorUpdateInsertOnly(map, d, path, num_rows) ==
    [x \in DOMAIN map \cup {d} |->
        IF x = d THEN [files |-> <<path>>, rows |-> num_rows] ELSE map[x]]

\* AccumulatorUpdate adding the rows but not the path to an existing entry
AccumulatorUpdateNoPush(map, d, path, num_rows) ==
    IF d \in DOMAIN map
    THEN [map EXCEPT ![d] = [files |-> @.files, rows |-> @.rows + num_rows]]
    ELSE map @@ (d :> [files |-> <<path>>, rows |-> num_rows])

\* the read-modify-write of the accumulator entry, under the lock
AccumulatorUpdate(map, d, path, num_rows) ==
    IF d \in DOMAIN map
    THEN [map EXCEPT ![d] = [files |-> Append(@.files, path),
                             rows |-> @.rows + num_rows]]
    ELSE map @@ (d :> [files |-> <<path>>, rows |-> num_rows])

\* the task ends with result res: its locals (stream, writers) are dropped
TaskEnds(i, state, res) ==
    /\ pc' = [pc EXCEPT ![i] = state]
    /\ join_result' = [join_result EXCEPT ![i] = res]
    /\ fetched' = [fetched EXCEPT ![i] = 0]
    /\ batch' = [batch EXCEPT ![i] = <<>>]
    /\ partition_desc' = [partition_desc EXCEPT ![i] = <<>>]
    /\ file_absolute_path' = [file_absolute_path EXCEPT ![i] = <<>>]
    /\ partitioned_writer' = [partitioned_writer EXCEPT ![i] = EmptyMap]
    /\ row_count' = [row_count EXCEPT ![i] = 0]
    /\ locked_desc' = [locked_desc EXCEPT ![i] = <<>>]
    /\ first_failed' = IF first_failed = NoTask THEN i ELSE first_failed

\* input.execute(partition, context)?
InputExecute(i) ==
    /\ pc[i] = "start"
    /\ \/ /\ pc' = [pc EXCEPT ![i] = "pull"]
          /\ UNCHANGED <<fetched, batch, partition_desc, file_absolute_path,
                         partitioned_writer, row_count, join_result, first_failed,
                         locked_desc>>
       \/ TaskEnds(i, "failed", ErrResult(UpstreamError))
    /\ UNCHANGED <<planVars, sharedVars, coordVars, streamVars>>
    /\ UNCHANGED <<scanVars, projVars>>

\* CanPull for a loop that starts write_record_batch without awaiting it
CanPullUnawaited(i) == pc[i] \in {"pull", "write"}

\* the loop polls data.next() only at its head: the body of the previous
\* iteration, with the awaited write_record_batch, has run to its end
CanPull(i) == pc[i] = "pull"

\* NeedsWriter without the contains_key test
NeedsWriterAlways(i, d) == TRUE

\* !partitioned_writer.contains_key(&partition_desc)
NeedsWriter(i, d) == d \notin DOMAIN partitioned_writer[i]

\* HashMap::insert: the entry of key k becomes v, replacing an older one
MapInsert(map, k, v) ==
    [x \in DOMAIN map \cup {k} |-> IF x = k THEN v ELSE map[x]]

\* data.next().await.transpose()? and the head of the loop body: the
\* descriptor and the path are computed once for the whole batch
PullBatch(i) ==
    /\ CanPull(i)
    /\ \/ \* None: the upstream partition has ended
          /\ pc' = [pc EXCEPT ![i] = "sink"]
          /\ UNCHANGED <<fetched, batch, partition_desc, file_absolute_path,
                         partitioned_writer, row_count, join_result, first_failed,
                         locked_desc>>
       \/ \* Some(Err(e))
          TaskEnds(i, "failed", ErrResult(UpstreamError))
       \/ \* Some(Ok(batch))
          /\ fetched[i] < MaxBatches
          /\ \E rows \in UpstreamBatches(fetched[i] + 1) :
             \E k \in 1..Len(rows) :
               LET cv == ColumnarValuesAt(rows, k)
                   d == columnar_values_to_partition_desc(cv)
               IN /\ fetched' = [fetched EXCEPT ![i] = @ + 1]
                  /\ batch' = [batch EXCEPT ![i] = BatchExcludingRange(rows)]
                  /\ partition_desc' = [partition_desc EXCEPT ![i] = d]
                  /\ file_absolute_path' =
                        [file_absolute_path EXCEPT
                            ![i] = FileAbsolutePath(cv, write_id, i)]
                  /\ pc' = [pc EXCEPT ![i] =
                              IF NeedsWriter(i, d) THEN "open" ELSE "write"]
          /\ UNCHANGED <<partitioned_writer, row_count, join_result, first_failed,
                         locked_desc>>
    /\ UNCHANGED <<planVars, sharedVars, coordVars, streamVars>>
    /\ UNCHANGED <<scanVars, projVars>>

\* if !partitioned_writer.contains_key(&partition_desc): open a writer on
\* the path of this batch and insert it
OpenWriter(i) ==
    /\ pc[i] = "open"
    /\ \/ /\ partitioned_writer' =
                [partitioned_writer EXCEPT
                    ![i] = MapInsert(@, partition_desc[i],
                                     NewWriter(file_absolute_path[i]))]
          /\ created' = created \cup {file_absolute_path[i]}
          /\ pc' = [pc EXCEPT ![i] = "write"]
          /\ UNCHANGED <<fetched, batch, partition_desc, file_absolute_path,
                         row_count, join_result, first_failed, locked_desc>>
       \/ /\ TaskEnds(i, "failed", ErrResult(WriterError))
          /\ UNCHANGED created
    /\ UNCHANGED <<planVars, lock, acc, closed, coordVars, streamVars>>
    /\ UNCHANGED <<scanVars, projVars>>

\* row_count += num_rows; async_writer.write_record_batch(batch).await?
WriteRecordBatch(i) ==
    /\ pc[i] = "write"
    /\ \/ /\ row_count' = [row_count EXCEPT ![i] = @ + Len(batch[i])]
          /\ partitioned_writer' =
                [partitioned_writer EXCEPT
                    ![i][partition_desc[i]] = WriterWrite(@, batch[i])]
          /\ batch' = [batch EXCEPT ![i] = <<>>]
          /\ pc' = [pc EXCEPT ![i] = "pull"]
          /\ UNCHANGED <<fetched, partition_desc, file_absolute_path,
                         join_result, first_failed, locked_desc>>
       \/ TaskEnds(i, "failed", ErrResult(WriterError))
    /\ UNCHANGED <<planVars, sharedVars, coordVars, streamVars>>
    /\ UNCHANGED <<scanVars, projVars>>

\* the next writer of partitioned_writer.into_iter() (any order), and
\* partitioned_file_path_and_row_count.lock().await
LockAccumulator(i) ==
    /\ pc[i] = "sink"
    /\ lock = NoTask
    /\ \E d \in DOMAIN partitioned_writer[i] :
          locked_desc' = [locked_desc EXCEPT ![i] = d]
    /\ lock' = i
    /\ pc' = [pc EXCEPT ![i] = "locked"]
    /\ UNCHANGED <<planVars, fetched, batch, partition_desc,
                   file_absolute_path, partitioned_writer, row_count,
                   join_result, first_failed, acc, created, closed, coordVars, streamVars>>
    /\ UNCHANGED <<scanVars, projVars>>

\* MergeIntoAccumulator without the inner block: the guard is not dropped
MergeIntoAccumulatorKeepGuard(i) ==
    /\ pc[i] = "locked"
    /\ lock = i
    /\ LET w == partitioned_writer[i][locked_desc[i]]
       IN acc' = AccumulatorUpdate(acc, locked_desc[i], absolute_path(w),
                                   nun_rows(w))
    /\ pc' = [pc EXCEPT ![i] = "flush"]
    /\ UNCHANGED <<planVars, fetched, batch, partition_desc,
                   file_absolute_path, partitioned_writer, row_count,
                   join_result, first_failed, locked_desc, lock, created,
                   closed, coordVars, streamVars>>
    /\ UNCHANGED <<scanVars, projVars>>

\* the block holding the guard: push the path, add the rows; the guard is
\* released at the end of the block
MergeIntoAccumulator(i) ==
    /\ pc[i] = "locked"
    /\ lock = i
    /\ LET w == partitioned_writer[i][locked_desc[i]]
       IN acc' = AccumulatorUpdate(acc, locked_desc[i], absolute_path(w),
                                   nun_rows(w))
    /\ lock' = NoTask
    /\ pc' = [pc EXCEPT ![i] = "flush"]
    /\ UNCHANGED <<planVars, fetched, batch, partition_desc,
                   file_absolute_path, partitioned_writer, row_count,
                   join_result, first_failed, locked_desc, created, closed, coordVars,
                   streamVars>>
    /\ UNCHANGED <<scanVars, projVars>>

\* FlushFailed ignoring the error: the writer is dropped unclosed and the
\* loop goes on
FlushFailedIgnored(i) ==
    /\ partitioned_writer' =
          [partitioned_writer EXCEPT
              ![i] = [d \in DOMAIN @ \ {locked_desc[i]} |-> @[d]]]
    /\ locked_desc' = [locked_desc EXCEPT ![i] = <<>>]
    /\ pc' = [pc EXCEPT ![i] = "sink"]
    /\ UNCHANGED <<fetched, batch, partition_desc, file_absolute_path,
                   row_count, join_result, first_failed, closed>>

\* `?` on a failed flush_and_close: the task returns the error, the file
\* is not closed
FlushFailed(i) ==
    /\ TaskEnds(i, "failed", ErrResult(WriterError))
    /\ UNCHANGED closed

\* writer.flush_and_close().await?
FlushAndClose(i) ==
    /\ pc[i] = "flush"
    /\ \/ /\ closed' = closed \cup
                        {absolute_path(partitioned_writer[i][locked_desc[i]])}
          /\ partitioned_writer' =
                [partitioned_writer EXCEPT
                    ![i] = [d \in DOMAIN @ \ {locked_desc[i]} |-> @[d]]]
          /\ locked_desc' = [locked_desc EXCEPT ![i] = <<>>]
          /\ pc' = [pc EXCEPT ![i] = "sink"]
          /\ UNCHANGED <<fetched, batch, partition_desc, file_absolute_path,
                         row_count, join_result, first_failed>>
       \/ FlushFailed(i)
    /\ UNCHANGED <<planVars, lock, acc, created, coordVars, streamVars>>
    /\ UNCHANGED <<scanVars, projVars>>

\* Ok(row_count as u64), once every writer has been merged and closed
ReturnOk(i) ==
    /\ pc[i] = "sink"
    /\ DOMAIN partitioned_writer[i] = {}
    /\ pc' = [pc EXCEPT ![i] = "done"]
    /\ join_result' = [join_result EXCEPT ![i] = OkResult(row_count[i])]
    /\ UNCHANGED <<planVars, first_failed, fetched, batch, partition_desc,
                   file_absolute_path, partitioned_writer, row_count,
                   locked_desc, sharedVars, coordVars, streamVars>>
    /\ UNCHANGED <<scanVars, projVars>>

\* a panic inside one of the awaited calls unwinds the task: its
\* JoinHandle yields a JoinError
TaskPanic(i) ==
    /\ pc[i] \in {"pull", "open", "write", "flush"}
    /\ TaskEnds(i, "panicked", PanicResult)
    /\ UNCHANGED <<planVars, sharedVars, coordVars, streamVars>>
    /\ UNCHANGED <<scanVars, projVars>>

(*************************************************************************)
(* The coordinator task: LakeSoulHashSinkExec::wait_for_commit.          *)
(*************************************************************************)
TaskFinished(i) == pc[i] \in {"done", "failed", "panicked"}

\* FoldStep skipping the results that are not Ok(Ok(_))
FoldStepSkipErrors(counter, result) ==
    IF result.kind = "ok"
    THEN OkResult(counter + result.count)
    ELSE OkResult(counter)

\* FoldStep counting one more row for every task
FoldStepOffByOne(counter, result) ==
    IF result.kind = "ok"
    THEN OkResult(counter + result.count + 1)
    ELSE ErrResult(DFError("Execution", ErrorToString(result.error)))

\* one step of the closure given to try_fold
FoldStep(counter, result) ==
    IF result.kind = "ok"
    THEN OkResult(counter + result.count)
    ELSE ErrResult(DFError("Execution", ErrorToString(result.error)))

RECURSIVE TryFoldLastError(_, _, _)
\* TryFold going through every result and keeping the last error
TryFoldLastError(results, i, counter) ==
    IF i = num_input_partitions
    THEN OkResult(counter)
    ELSE LET r == FoldStep(counter, results[i])
             rest == TryFoldLastError(results, i + 1,
                                      IF r.kind = "ok" THEN r.count
                                      ELSE counter)
         IN IF r.kind # "ok" /\ rest.kind = "ok" THEN r ELSE rest

RECURSIVE TryFold(_, _, _)
\* join_all(join_handles).await.iter().try_fold(0u64, ..): the results in
\* the order of the handles, stopping at the first that is not Ok(Ok(_))
TryFold(results, i, counter) ==
    IF i = num_input_partitions
    THEN OkResult(counter)
    ELSE LET r == FoldStep(counter, results[i])
         IN IF r.kind = "ok" THEN TryFold(results, i + 1, r.count) ELSE r

\* JoinAll returning at the first failure it sees (try_join_all)
JoinAllFailFast ==
    /\ cpc = "join"
    /\ \/ \E i \in Parts :
             /\ pc[i] \in {"failed", "panicked"}
             /\ coord_result' =
                   ErrResult(DFError("Execution",
                                     ErrorToString(join_result[i].error)))
             /\ cpc' = "returned"
             /\ UNCHANGED count
       \/ /\ \A i \in InputParts : pc[i] = "done"
          /\ count' = TryFold(join_result, 0, 0).count
          /\ cpc' = "lock"
          /\ UNCHANGED coord_result
    /\ UNCHANGED <<planVars, taskVars, sharedVars, pending, calls, committed,
                   streamVars>>
    /\ UNCHANGED <<scanVars, projVars>>

\* JoinAll for a coordinator that does not await the handles of the tasks
JoinAllNoWait ==
    /\ cpc = "join"
    /\ count' = 0
    /\ cpc' = "lock"
    /\ UNCHANGED <<planVars, taskVars, sharedVars, pending, coord_result,
                   calls, committed, streamVars>>
    /\ UNCHANGED <<scanVars, projVars>>

\* join_all(..).await and the fold; `?` returns the error
JoinAll ==
    /\ cpc = "join"
    /\ \A i \in InputParts : TaskFinished(i)
    /\ LET r == TryFold(join_result, 0, 0)
       IN IF r.kind = "ok"
          THEN /\ count' = r.count
               /\ cpc' = "lock"
               /\ UNCHANGED coord_result
          ELSE /\ coord_result' = r
               /\ cpc' = "returned"
               /\ UNCHANGED count
    /\ UNCHANGED <<planVars, taskVars, sharedVars, pending, calls, committed,
                   streamVars>>
    /\ UNCHANGED <<scanVars, projVars>>

\* partitioned_file_path_and_row_count.lock().await; the guard lives until
\* the function returns
CoordLock ==
    /\ cpc = "lock"
    /\ lock = NoTask
    /\ lock' = Coord
    /\ pending' = DOMAIN acc
    /\ cpc' = "commit"
    /\ UNCHANGED <<planVars, taskVars, acc, created, closed, count,
                   coord_result, calls, committed, streamVars>>
    /\ UNCHANGED <<scanVars, projVars>>

\* CommitCall passing the files of every descriptor of the map
CommitCallAllFiles(d) ==
    [desc |-> d,
     files |-> LET RECURSIVE Cat(_)
                   Cat(D) == IF D = {} THEN <<>>
                             ELSE LET x == CHOOSE x \in D : TRUE
                                  IN acc[x].files \o Cat(D \ {x})
               IN Cat(DOMAIN acc)]

\* the arguments of one commit_data call
CommitCall(d) == [desc |-> d, files |-> acc[d].files]

\* CommitError ignoring the error: the loop goes on
CommitErrorIgnored(d) ==
    /\ pending' = pending \ {d}
    /\ UNCHANGED <<cpc, coord_result, lock, committed>>

\* .map_err(..)? on a failed commit_data call: the function returns the
\* error, which ends the loop and drops the guard
CommitError(d) ==
    /\ coord_result' = ErrResult(DFError("External", CatalogError))
    /\ cpc' = "returned"
    /\ pending' = {}
    /\ lock' = NoTask
    /\ UNCHANGED committed

\* one iteration of the loop over the map (any order): commit_data(..).await
CommitData ==
    /\ cpc = "commit"
    /\ \E d \in pending :
         /\ calls' = Append(calls, CommitCall(d))
         /\ \/ /\ committed' = committed \cup {CommitCall(d)}
               /\ pending' = pending \ {d}
               /\ UNCHANGED <<cpc, coord_result, lock>>
            \/ CommitError(d)
    /\ UNCHANGED <<planVars, taskVars, acc, created, closed, count, streamVars>>
    /\ UNCHANGED <<scanVars, projVars>>

\* Ok(count) after the loop
CoordReturn ==
    /\ cpc = "commit"
    /\ pending = {}
    /\ coord_result' = OkResult(count)
    /\ cpc' = "returned"
    /\ lock' = NoTask
    /\ UNCHANGED <<planVars, taskVars, acc, created, closed, count, pending,
                   calls, committed, streamVars>>
    /\ UNCHANGED <<scanVars, projVars>>

\* a panic inside a commit_data call unwinds the coordinator: the call was
\* issued and did not return successfully
CoordPanic ==
    /\ cpc = "commit"
    /\ \E d \in pending : calls' = Append(calls, CommitCall(d))
    /\ coord_result' = PanicResult
    /\ cpc' = "panicked"
    /\ pending' = {}
    /\ lock' = NoTask
    /\ UNCHANGED <<planVars, taskVars, acc, created, closed, count,
                   committed, streamVars>>
    /\ UNCHANGED <<scanVars, projVars>>

(*************************************************************************)
(* The output stream of execute: stream::once(join_handle.await ..).     *)
(*************************************************************************)
\* make_sink_batch(count, msg): two columns of one value each
make_sink_batch(n, msg) == [count |-> <<n>>, msg |-> <<msg>>]

num_rows(b) == Len(b.count)

\* SinkItem passing the coordinator's error on as the stream's item
SinkItemPropagating(r) ==
    IF r.kind = "ok"
    THEN [kind |-> "Ok", batch |-> make_sink_batch(r.count, <<>>)]
    ELSE [kind |-> "Err", error |-> r.error]

\* SinkItem reporting a failure with row count 0 and no message
SinkItemNoSentinel(r) ==
    IF r.kind = "ok"
    THEN [kind |-> "Ok", batch |-> make_sink_batch(r.count, <<>>)]
    ELSE [kind |-> "Ok", batch |-> make_sink_batch(0, <<>>)]

\* the match on join_handle.await: every arm is Ok(make_sink_batch(..))
SinkItem(r) ==
    IF r.kind = "ok"
    THEN [kind |-> "Ok", batch |-> make_sink_batch(r.count, <<>>)]
    ELSE [kind |-> "Ok",
          batch |-> make_sink_batch(U64_MAX, ErrorToString(r.error))]

\* poll of the stream: the single item, ready when the coordinator is
StreamYield ==
    /\ execute_result = "stream"
    /\ output = <<>>
    /\ cpc \in {"returned", "panicked"}
    /\ output' = <<SinkItem(coord_result)>>
    /\ UNCHANGED <<planVars, taskVars, sharedVars, coordVars, stream_ended>>
    /\ UNCHANGED <<scanVars, projVars>>

\* poll of the stream after its item: None
StreamEnd ==
    /\ output # <<>>
    /\ ~stream_ended
    /\ stream_ended' = TRUE
    /\ UNCHANGED <<planVars, taskVars, sharedVars, coordVars, output>>
    /\ UNCHANGED <<scanVars, projVars>>

(*************************************************************************)
(* The write path as a system.                                           *)
(*************************************************************************)
\* the scan planner before any planning call
ScanIdle ==
    /\ spc = "idle"
    /\ scan_conf = <<>>
    /\ frag_idx = 0
    /\ inputs_map = EmptyMap
    /\ column_nullable = {}
    /\ merged_schema = <<>>
    /\ exec = <<>>
    /\ scan_output = <<>>

\* no ProjectionStream yet
ProjIdle ==
    /\ ppc = "idle"
    /\ projection_stream = <<>>
    /\ proj_input = <<>>
    /\ proj_polled = <<>>
    /\ proj_yielded = <<>>
    /\ last_poll = "none"

vars == <<writeVars, scanVars, projVars>>

Init == WriteInit /\ ScanIdle /\ ProjIdle

Next ==
    \/ \E op \in InsertOps : CreateWriterPhysicalPlan(op)
    \/ \E partition \in 0..1 : Execute(partition)
    \/ \E i \in Parts : InputExecute(i)
    \/ \E i \in Parts : PullBatch(i)
    \/ \E i \in Parts : OpenWriter(i)
    \/ \E i \in Parts : WriteRecordBatch(i)
    \/ \E i \in Parts : LockAccumulator(i)
    \/ \E i \in Parts : MergeIntoAccumulator(i)
    \/ \E i \in Parts : FlushAndClose(i)
    \/ \E i \in Parts : ReturnOk(i)
    \/ \E i \in Parts : TaskPanic(i)
    \/ JoinAll
    \/ CoordLock
    \/ CommitData
    \/ CoordReturn
    \/ CoordPanic
    \/ StreamYield
    \/ StreamEnd

Spec == Init /\ [][Next]_vars

\* the steps of writer task i that are not panics
TaskStep(i) ==
    \/ InputExecute(i)
    \/ PullBatch(i)
    \/ OpenWriter(i)
    \/ WriteRecordBatch(i)
    \/ LockAccumulator(i)
    \/ MergeIntoAccumulator(i)
    \/ FlushAndClose(i)
    \/ ReturnOk(i)

\* the steps of the coordinator that are not panics
CoordStep == JoinAll \/ CoordLock \/ CommitData \/ CoordReturn

\* a step of a spawned task or of the polled stream
Progress == (\E i \in Parts : TaskStep(i)) \/ CoordStep \/ StreamYield

\* the runtime runs a task that is ready, every awaited call returns, and
\* the consumer polls the stream: while a step is possible, one is taken
Fairness == WF_vars(Progress)

LiveSpec == Spec /\ Fairness

(*************************************************************************)
(* The scan planner: LakeSoulMetaDataParquetFormat::create_physical_plan. *)
(* The modelled table has the file columns id (primary key), v and op    *)
(* and the range partition column region.                                *)
(*************************************************************************)
Null == "NULL"
\* the delete marker of the CDC filter, lit("delete")
DeleteMarker == "delete"
\* self.conf.primary_keys_slice()
PrimaryKeys == {"id"}
\* conf.projection: None, or Some(indices into the table schema), 1-based
None == [some |-> FALSE]
Some(x) == [some |-> TRUE, value |-> x]
Projections == {None, Some(<<2>>), Some(<<4, 1>>), Some(<<3, 1>>),
                Some(<<2, 3>>)}
\* self.conf.cdc_column(): empty when the table has no CDC column
CdcColumns == {"", "op"}
\* values of the op column in the files
CdcValues == {"insert", DeleteMarker, Null}

ScanField(name, nullable) == [name |-> name, nullable |-> nullable]
FieldNames(schema) == { schema[n].name : n \in 1..Len(schema) }

\* file_schema plus table_partition_cols, each partition column not nullable
TableSchema(conf) ==
    << ScanField("id", FALSE),
       ScanField("v", "v" \in conf.base_nullable),
       ScanField("op", "op" \in conf.base_nullable) >>
    \o << ScanField(RangeCol, FALSE) >>

\* datafusion::common::project_schema
project_schema(schema, projection) ==
    IF ~projection.some
    THEN schema
    ELSE [n \in 1..Len(projection.value) |-> schema[projection.value[n]]]

\* target_schema: the schema the caller asked for
TargetSchema(conf) == project_schema(TableSchema(conf), conf.projection)

RECURSIVE IndicesWhere(_, _, _)
\* the indices n..Len(schema) of the fields whose name is in names
IndicesWhere(schema, names, n) ==
    IF n > Len(schema) THEN <<>>
    ELSE (IF schema[n].name \in names THEN <<n>> ELSE <<>>)
         \o IndicesWhere(schema, names, n + 1)

\* compute_project_column_indices: the requested columns plus the primary
\* keys and the CDC column, in the order of the table schema
compute_project_column_indices(schema, target, pks, cdc) ==
    Some(IndicesWhere(schema, FieldNames(target) \cup pks \cup {cdc}, 1))

\* merged_schema before the nullability is widened
BaseMergedSchema(conf) ==
    project_schema(TableSchema(conf),
                   compute_project_column_indices(TableSchema(conf),
                       TargetSchema(conf), PrimaryKeys, conf.cdc_column))

\* the rows one fragment can hold: a key and an op each
FragmentRows ==
    UNION { [1..len -> [id : 1..MaxKey, op : CdcValues]] :
            len \in 0..MaxFragRows }

\* the elements flatten_file_scan_config can return: one file each, with
\* its partition value, the nullable fields of its schema and its rows; a
\* NULL op needs a nullable op column in the file
Fragments ==
    { f \in [region : PartVals, nullable : {{}, {"op"}, {"v", "op"}},
             rows : FragmentRows] :
        \A n \in 1..Len(f.rows) : f.rows[n].op = Null => "op" \in f.nullable }

\* partition_desc_from_file_scan_config
partition_desc_from_file_scan_config(f) ==
    columnar_values_to_partition_desc(<<<<RangeCol, f.region>>>>)

\* the body of the loop over flatten_conf: the nullable field names of the
\* fragment's scan are collected
ColumnNullableAfter(set, f) == set \cup f.nullable

\* InputsMapAfter inserting a new entry also when the descriptor has one
InputsMapAfterInsertOnly(map, f, n) ==
    LET d == partition_desc_from_file_scan_config(f)
    IN [x \in DOMAIN map \cup {d} |->
          IF x = d THEN [values |-> f.region, inputs |-> <<n>>] ELSE map[x]]

\* the body of the loop over flatten_conf: the fragment's scan is pushed
\* to its descriptor's entry, or a new entry is inserted
InputsMapAfter(map, f, n) ==
    LET d == partition_desc_from_file_scan_config(f)
    IN IF d \in DOMAIN map
       THEN [map EXCEPT ![d] = [values |-> @.values,
                                inputs |-> Append(@.inputs, n)]]
       ELSE map @@ (d :> [values |-> f.region, inputs |-> <<n>>])

\* WidenNullable taking the nullability from the fragments alone
WidenNullableFragmentsOnly(schema, nullable_names) ==
    [n \in 1..Len(schema) |->
        ScanField(schema[n].name, schema[n].name \in nullable_names)]

\* Field::new(name, type, field.is_nullable() | column_nullable.contains(name))
WidenNullable(schema, nullable_names) ==
    [n \in 1..Len(schema) |->
        ScanField(schema[n].name,
                  schema[n].nullable \/ schema[n].name \in nullable_names)]

\* the plan nodes the planner builds
MergeNode(schema, inputs, values) ==
    [op |-> "MergeParquetExec", schema |-> schema, inputs |-> inputs,
     values |-> values]
UnionNode(children) == [op |-> "UnionExec", inputs |-> children]
FilterNode(column, input) ==
    [op |-> "FilterExec", column |-> column, input |-> input]
ProjectionNode(names, input) ==
    [op |-> "ProjectionExec", expr |-> names, input |-> input]

\* the orders in which a HashMap can be iterated
Orders(S) ==
    { o \in [1..Cardinality(S) -> S] :
        \A a, b \in 1..Cardinality(S) : a # b => o[a] # o[b] }

\* Merge Reader: the rows of the inputs in fragment order, one row per
\* primary key, the last one wins; the columns are those of the schema,
\* the partition column has the group's value and v the fragment's number.
\* rid is a ghost field naming the row's place in the files.
RECURSIVE FragmentRowsOf(_, _, _)
FragmentRowsOf(frags, inputs, values) ==
    IF inputs = <<>> THEN <<>>
    ELSE LET n == Head(inputs)
             f == frags[n]
         IN [k \in 1..Len(f.rows) |->
                [rid |-> <<n, k>>,
                 cols |-> ("id" :> f.rows[k].id) @@ ("v" :> n)
                          @@ ("op" :> f.rows[k].op) @@ (RangeCol :> values)]]
            \o FragmentRowsOf(frags, Tail(inputs), values)

MergeRead(frags, node) ==
    LET all == FragmentRowsOf(frags, node.inputs, node.values)
        Index == { n \in 1..Len(all) :
                     \A m \in (n + 1)..Len(all) :
                         all[m].cols["id"] # all[n].cols["id"] }
        RECURSIVE Keep(_)
        Keep(n) == IF n > Len(all) THEN <<>>
                   ELSE (IF n \in Index THEN <<all[n]>> ELSE <<>>) \o Keep(n + 1)
        kept == Keep(1)
    IN [k \in 1..Len(kept) |->
           [rid |-> kept[k].rid,
            cols |-> [c \in FieldNames(node.schema) |-> kept[k].cols[c]]]]

\* CdcFilterValue comparing with eq instead of not_eq
CdcFilterValueEq(row, column) ==
    IF row.cols[column] = Null THEN Null
    ELSE IF row.cols[column] = DeleteMarker THEN "true" ELSE "false"

\* ident(cdc_column).not_eq(lit("delete")) on one row, in SQL's three
\* valued logic: a NULL operand gives NULL
CdcFilterValue(row, column) ==
    IF row.cols[column] = Null THEN Null
    ELSE IF row.cols[column] # DeleteMarker THEN "true" ELSE "false"

\* FilterExec keeps the rows whose predicate is true
FilterRows(rows, column) ==
    LET Keeps(r) == CdcFilterValue(r, column) = "true"
    IN SelectSeq(rows, Keeps)

\* ProjectionExec of column expressions
ProjectRows(rows, names) ==
    [k \in 1..Len(rows) |->
        [rid |-> rows[k].rid,
         cols |-> [c \in { names[n] : n \in 1..Len(names) } |-> rows[k].cols[c]]]]

RECURSIVE RunPlan(_, _)
RECURSIVE RunAll(_, _)
\* the rows a plan produces when executed
RunPlan(frags, node) ==
    CASE node.op = "MergeParquetExec" -> MergeRead(frags, node)
      [] node.op = "UnionExec" -> RunAll(frags, node.inputs)
      [] node.op = "FilterExec" ->
             FilterRows(RunPlan(frags, node.input), node.column)
      [] node.op = "ProjectionExec" ->
             ProjectRows(RunPlan(frags, node.input), node.expr)
RunAll(frags, nodes) ==
    IF nodes = <<>> THEN <<>>
    ELSE RunPlan(frags, Head(nodes)) \o RunAll(frags, Tail(nodes))

RECURSIVE PlanSchema(_)
\* the field names of a plan's output, in order
PlanSchema(node) ==
    CASE node.op = "MergeParquetExec" ->
             [n \in 1..Len(node.schema) |-> node.schema[n].name]
      [] node.op = "UnionExec" -> PlanSchema(node.inputs[1])
      [] node.op = "FilterExec" -> PlanSchema(node.input)
      [] node.op = "ProjectionExec" -> node.expr

\* a call of create_physical_plan with its inputs
ScanStart ==
    /\ spc = "idle"
    /\ \E projection \in Projections, cdc \in CdcColumns,
          base \in {{}, {"v"}}, len \in 0..MaxFragments :
       \E frags \in [1..len -> Fragments] :
          scan_conf' = [projection |-> projection, cdc_column |-> cdc,
                        base_nullable |-> base, flatten_conf |-> frags]
    /\ frag_idx' = 1
    /\ spc' = "grouping"
    /\ UNCHANGED <<inputs_map, column_nullable, merged_schema, exec,
                   scan_output>>
    /\ UNCHANGED <<writeVars, projVars>>

\* one iteration of the loop over flatten_conf
GroupFragment ==
    /\ spc = "grouping"
    /\ frag_idx <= Len(scan_conf.flatten_conf)
    /\ LET f == scan_conf.flatten_conf[frag_idx]
       IN /\ column_nullable' = ColumnNullableAfter(column_nullable, f)
          /\ inputs_map' = InputsMapAfter(inputs_map, f, frag_idx)
    /\ frag_idx' = frag_idx + 1
    /\ UNCHANGED <<spc, scan_conf, merged_schema, exec, scan_output>>
    /\ UNCHANGED <<writeVars, projVars>>

\* the plan over the merge nodes: a union of several, or the only one;
\* first().unwrap() of an empty vector panics
CombineGroups(partitioned_exec) ==
    IF Len(partitioned_exec) > 1 THEN UnionNode(partitioned_exec)
    ELSE partitioned_exec[1]

\* after the loop: the widened merged schema, one MergeParquetExec per entry
\* of inputs_map (in any order) and their combination
BuildMergedPlan ==
    /\ spc = "grouping"
    /\ frag_idx > Len(scan_conf.flatten_conf)
    /\ merged_schema' = WidenNullable(BaseMergedSchema(scan_conf), column_nullable)
    /\ \E order \in Orders(DOMAIN inputs_map) :
          LET partitioned_exec ==
                  [n \in 1..Len(order) |->
                      MergeNode(merged_schema', inputs_map[order[n]].inputs,
                                inputs_map[order[n]].values)]
          IN IF Len(partitioned_exec) = 0
             THEN /\ spc' = "panicked"
                  /\ UNCHANGED exec
             ELSE /\ spc' = "merged"
                  /\ exec' = CombineGroups(partitioned_exec)
    /\ UNCHANGED <<scan_conf, frag_idx, inputs_map, column_nullable, scan_output>>
    /\ UNCHANGED <<writeVars, projVars>>

\* whether the CDC filter is added
HasCdcFilter(cdc_column) == cdc_column # ""

\* if !cdc_column.is_empty() a FilterExec is put on top
ApplyCdcFilter ==
    /\ spc = "merged"
    /\ exec' = IF HasCdcFilter(scan_conf.cdc_column)
               THEN FilterNode(scan_conf.cdc_column, exec)
               ELSE exec
    /\ spc' = "filtered"
    /\ UNCHANGED <<scan_conf, frag_idx, inputs_map, column_nullable,
                   merged_schema, scan_output>>
    /\ UNCHANGED <<writeVars, projVars>>

\* if target_schema has fewer fields than merged_schema a ProjectionExec of
\* the target's columns is put on top; the plan is returned
ApplyProjection ==
    /\ spc = "filtered"
    /\ LET target == TargetSchema(scan_conf)
       IN exec' = IF Len(target) < Len(merged_schema)
                  THEN ProjectionNode([n \in 1..Len(target) |-> target[n].name],
                                      exec)
                  ELSE exec
    /\ spc' = "planned"
    /\ UNCHANGED <<scan_conf, frag_idx, inputs_map, column_nullable,
                   merged_schema, scan_output>>
    /\ UNCHANGED <<writeVars, projVars>>

\* the caller runs the returned plan
RunScan ==
    /\ spc = "planned"
    /\ scan_output' = [schema |-> PlanSchema(exec),
                       rows |-> RunPlan(scan_conf.flatten_conf, exec)]
    /\ spc' = "executed"
    /\ UNCHANGED <<scan_conf, frag_idx, inputs_map, column_nullable,
                   merged_schema, exec>>
    /\ UNCHANGED <<writeVars, projVars>>

ScanNext ==
    \/ ScanStart
    \/ GroupFragment
    \/ BuildMergedPlan
    \/ ApplyCdcFilter
    \/ ApplyProjection
    \/ RunScan

ScanSpec == Init /\ [][ScanNext]_vars

(*************************************************************************)
(* Properties of the write path.                                         *)
(*************************************************************************)
RECURSIVE SumCounts(_, _)
\* the sum of the row counts returned by the tasks i, i + 1, ..
SumCounts(results, i) ==
    IF i >= num_input_partitions THEN 0
    ELSE results[i].count + SumCounts(results, i + 1)

AllTasksOk == cpc # "unspawned" /\ \A i \in InputParts : pc[i] = "done"
SomeTaskFailed == \E i \in Parts : pc[i] \in {"failed", "panicked"}
CommitFailed == \E n \in 1..Len(calls) : calls[n] \notin committed
Distinct(seq) ==
    \A m, n \in 1..Len(seq) : m # n => seq[m] # seq[n]
IsSuffix(t, seq) ==
    /\ Len(t) <= Len(seq)
    /\ SubSeq(seq, Len(seq) - Len(t) + 1, Len(seq)) = t
DescOfValue(v) == columnar_values_to_partition_desc(<<<<RangeCol, v>>>>)

\* C1: when every writer task has succeeded, has written rows, and all of
\* them wrote into one descriptor d, the accumulator entry of d holds
\* NumParts distinct paths and the sum of the tasks' row counts, and the
\* coordinator's total is that sum.
C1_NoLostUpdate ==
    \A d \in Descs :
        (/\ AllTasksOk
         /\ \A i \in InputParts : join_result[i].count > 0
         /\ DOMAIN acc = {d})
        => /\ Len(acc[d].files) = num_input_partitions
           /\ Distinct(acc[d].files)
           /\ acc[d].rows = SumCounts(join_result, 0)
           /\ (cpc \in {"lock", "commit"} => count = SumCounts(join_result, 0))
           /\ (coord_result.kind = "ok"
                 => coord_result.count = SumCounts(join_result, 0))

C1_Witness ==
    /\ AllTasksOk
    /\ num_input_partitions = NumParts
    /\ \A i \in Parts : join_result[i].count > 0
    /\ Cardinality(DOMAIN acc) = 1
    /\ coord_result.kind = "ok"

\* C2: once a writer task has failed or panicked, no commit_data call is
\* ever issued, whatever the accumulator holds.
C2_NoPartialCommit == SomeTaskFailed => calls = <<>>

C2_Witness ==
    /\ SomeTaskFailed
    /\ \E i \in Parts : pc[i] = "done" /\ join_result[i].count > 0
    /\ DOMAIN acc # {}
    /\ cpc = "returned"

\* C3: the output stream yields at most one item, the item is Ok and a
\* batch of one row, and the stream ends only after it.
C3_OneOkItem ==
    /\ Len(output) <= 1
    /\ \A n \in 1..Len(output) :
          output[n].kind = "Ok" /\ num_rows(output[n].batch) = 1
    /\ (stream_ended => Len(output) = 1)

C3_Witness ==
    /\ stream_ended
    /\ coord_result.kind = "err"
    /\ SomeTaskFailed

\* C4: the count of the result row is U64_MAX exactly when a writer task
\* or a commit_data call failed; on success it is the sum of the tasks'
\* row counts with an empty message, on failure the message ends with the
\* text of an error that occurred.
C4_SentinelIffFailed ==
    output # <<>> =>
        LET b == output[1].batch
            failed == SomeTaskFailed \/ CommitFailed
            texts == { ErrorToString(join_result[i].error) :
                         i \in { j \in Parts : pc[j] \in {"failed", "panicked"} } }
                     \cup (IF CommitFailed
                           THEN {CatalogError, ErrorToString(JoinErrorPanic)}
                           ELSE {})
        IN /\ (b.count[1] = U64_MAX) <=> failed
           /\ ~failed => /\ b.count[1] = SumCounts(join_result, 0)
                         /\ b.msg[1] = <<>>
           /\ failed => /\ b.msg[1] # <<>>
                        /\ \E t \in texts : IsSuffix(t, b.msg[1])

C4_Witness ==
    /\ output # <<>>
    /\ output[1].batch.count[1] = U64_MAX
    /\ CommitFailed
    /\ ~SomeTaskFailed

\* C5: an Overwrite request builds no sink: nothing is executed, no task
\* is spawned, no file is created and no commit_data call is issued.
C5_OverwriteRejected ==
    insert_op = "Overwrite" =>
        /\ sink = "rejected"
        /\ execute_result = "none"
        /\ \A i \in Parts : pc[i] = "unspawned"
        /\ cpc = "unspawned"
        /\ created = {}
        /\ calls = <<>>

C5_Witness == insert_op = "Overwrite" /\ sink = "rejected"

\* C6: when the coordinator returns Ok, every descriptor of the
\* accumulator has exactly one commit_data call, with its file list, and
\* there is no other call.
C6_OneCallPerDescriptor ==
    coord_result.kind = "ok" =>
        /\ Len(calls) = Cardinality(DOMAIN acc)
        /\ \A n \in 1..Len(calls) : calls[n].desc \in DOMAIN acc
        /\ \A d \in DOMAIN acc :
              \E n \in 1..Len(calls) :
                  /\ calls[n] = [desc |-> d, files |-> acc[d].files]
                  /\ \A m \in 1..Len(calls) : calls[m].desc = d => m = n

C6_Witness ==
    /\ coord_result.kind = "ok"
    /\ Cardinality(DOMAIN acc) = 2
    /\ \E d \in DOMAIN acc : Len(acc[d].files) = 2

\* C7: after a failed commit_data call no further call is issued, nothing
\* committed is ever taken back, and the coordinator's result is not Ok.
C7_CommitFailureAborts ==
    [][/\ committed \subseteq committed'
       /\ (CommitFailed => calls' = calls)
       /\ (CommitFailed' => /\ cpc' \in {"returned", "panicked"}
                            /\ coord_result'.kind # "ok"
                            /\ \A n \in 1..Len(output') :
                                  output'[n].batch.count[1] = U64_MAX)]_vars

C7_Witness ==
    /\ CommitFailed
    /\ committed # {}
    /\ coord_result.kind = "err"
    /\ stream_ended

\* C8: every row a writer holds belongs to the writer's descriptor: the
\* row's own value of the range column encodes to that descriptor.
C8_RowsRoutedByOwnValues ==
    \A i \in Parts : \A d \in DOMAIN partitioned_writer[i] :
        LET w == partitioned_writer[i][d]
        IN \A n \in 1..Len(w.rows) : DescOfValue(w.rows[n].origin) = d

\* C9: a writer is never opened on a path chosen before in the invocation,
\* by another task or by the same task for another descriptor, and the
\* paths registered in the accumulator are pairwise distinct.
C9_DistinctPaths ==
    /\ \A i \in Parts :
          pc[i] = "open" =>
              /\ file_absolute_path[i] \notin created
              /\ \A j \in Parts \ {i} :
                    pc[j] = "open"
                        => file_absolute_path[j] # file_absolute_path[i]
    /\ \A d1, d2 \in DOMAIN acc :
          /\ Distinct(acc[d1].files)
          /\ d1 # d2 => \A m \in 1..Len(acc[d1].files) :
                            \A n \in 1..Len(acc[d2].files) :
                                acc[d1].files[m] # acc[d2].files[n]

C9_Witness ==
    /\ Cardinality(created) = NumParts * Cardinality(PartVals)
    /\ \E d \in DOMAIN acc : Len(acc[d].files) = NumParts

(*************************************************************************)
(* Properties of the scan planner.                                       *)
(*************************************************************************)
RECURSIVE MergedPlanOf(_)
\* the plan below the CDC filter and the final projection
MergedPlanOf(node) ==
    IF node.op \in {"FilterExec", "ProjectionExec"}
    THEN MergedPlanOf(node.input)
    ELSE node

MergedRows == RunPlan(scan_conf.flatten_conf, MergedPlanOf(exec))
RowIds(rows) == { rows[k].rid : k \in 1..Len(rows) }

SchemaNames(schema) == [n \in 1..Len(schema) |-> schema[n].name]

(*************************************************************************)
(* C11: whatever the projection of a scan, the plan that is built yields  *)
(* exactly the requested fields in the requested order, whether or not    *)
(* the merged schema has more fields than the requested one.              *)
(*************************************************************************)
C11_RequestedSchema ==
    spc \in {"planned", "executed"}
        => PlanSchema(exec) = SchemaNames(TargetSchema(scan_conf))

(*************************************************************************)
(* C12: the coordinator makes its first catalog call only after every    *)
(* writer task of the invocation has completed or failed: in no reachable *)
(* state is a catalog call in progress or finished while a writer task is *)
(* still running.                                                         *)
(*************************************************************************)
C12_CommitAfterAllTasks ==
    (calls # <<>> \/ cpc = "commit") => \A i \in InputParts : TaskFinished(i)

C12_Witness ==
    /\ AllTasksOk
    /\ closed # {}
    /\ Len(calls) = 1
    /\ \E i \in Parts : Len(calls[1].files) = 1
                        /\ calls[1].files[1] \in closed

(*************************************************************************)
(* C13: the lock of the accumulator is never held across an I/O await:    *)
(* a step in which a writer task awaits an upstream read, the opening of  *)
(* a writer, a batch write or a flush/close, and a step in which the      *)
(* coordinator awaits a catalog call, is never taken by a process that    *)
(* holds the lock.                                                        *)
(*************************************************************************)
C13_NoLockAcrossAwait ==
    [][/\ \A i \in Parts :
            (pc[i] \in {"pull", "open", "write", "flush"} /\ pc'[i] # pc[i])
                => lock # i
       /\ calls' # calls => lock # Coord]_vars

(*************************************************************************)
(* C14: the accumulator holds the path of a file only after the writer of *)
(* that file has been flushed and closed.                                 *)
(*************************************************************************)
C14_PathsAreClosed ==
    \A d \in DOMAIN acc :
        \A n \in 1..Len(acc[d].files) : acc[d].files[n] \in closed

\* the path task i uses for the files of range value v
PathOf(v, i) == FileAbsolutePath(<<<<RangeCol, v>>>>, write_id, i)
\* how often x occurs in seq
Occurrences(seq, x) == Cardinality({ n \in 1..Len(seq) : seq[n] = x })
RECURSIVE AccRows(_, _)
\* the row counts of the entries D of the accumulator map, added up
AccRows(map, D) ==
    IF D = {} THEN 0
    ELSE LET d == CHOOSE d \in D : TRUE
         IN map[d].rows + AccRows(map, D \ {d})

(*************************************************************************)
(* C15: a writer task that has completed successfully has updated the    *)
(* accumulator exactly once for each descriptor it touched (its path is   *)
(* there once, under that descriptor, and its rows were added once) and   *)
(* never for a descriptor it did not touch.                               *)
(*************************************************************************)
C15_OnceUpdatePerDescriptor ==
    /\ \A i \in Parts :
          pc[i] = "done" =>
            \A v \in PartVals :
              LET path == PathOf(v, i)
                  d == DescOfValue(v)
                  here == IF d \in DOMAIN acc
                          THEN Occurrences(acc[d].files, path) ELSE 0
              IN /\ \A x \in DOMAIN acc \ {d} :
                       Occurrences(acc[x].files, path) = 0
                 /\ here = (IF path \in created THEN 1 ELSE 0)
    /\ AllTasksOk => AccRows(acc, DOMAIN acc) = SumCounts(join_result, 0)

C15_Witness ==
    /\ AllTasksOk
    /\ \A v \in PartVals : PathOf(v, 0) \in created
    /\ \E v \in PartVals : PathOf(v, 1) \notin created
    /\ \E d \in DOMAIN acc : Len(acc[d].files) = 2

TaskFailed(i) == pc[i] \in {"failed", "panicked"}
\* the text the coordinator makes of the failure of task i
ReportedText(i) ==
    ErrorToString(DFError("Execution", ErrorToString(join_result[i].error)))
\* the failed task whose handle comes first in join_handles
FirstFailedHandle ==
    CHOOSE i \in Parts : TaskFailed(i) /\ \A j \in 0..(i - 1) : ~TaskFailed(j)

(*************************************************************************)
(* C16, as stated: when writer tasks have failed, the message of the      *)
(* sentinel row is the error of the task that failed first (in time),     *)
(* and nothing of the other failures.                                     *)
(*************************************************************************)
C16_FirstFailureInTime ==
    (output # <<>> /\ SomeTaskFailed)
        => output[1].batch.msg[1] = ReportedText(first_failed)

(*************************************************************************)
(* C16, amended: when writer tasks have failed, the message of the        *)
(* sentinel row is the error of the failed task with the lowest upstream  *)
(* partition index (the first in the order of the join handles), which    *)
(* need not be the one that failed first in time, and nothing of the      *)
(* other failures.                                                        *)
(*************************************************************************)
C16_FirstFailureInHandleOrder ==
    (output # <<>> /\ SomeTaskFailed)
        => /\ output[1].batch.count[1] = U64_MAX
           /\ output[1].batch.msg[1] = ReportedText(FirstFailedHandle)

C16_Witness ==
    /\ output # <<>>
    /\ \A i \in Parts : TaskFailed(i)
    /\ first_failed = 1
    /\ join_result[0].error # join_result[1].error
    /\ output[1].batch.msg[1] = ReportedText(0)

(*************************************************************************)
(* C17: the failure of a writer task does not cancel its siblings.  A     *)
(* task ends only by itself: with Ok once its upstream has ended and its  *)
(* writers are merged and closed, or with the error of one of its own     *)
(* awaited calls; the step in which one task fails leaves every other     *)
(* task where it is.  The coordinator returns, and the stream yields,     *)
(* only when every task has finished, and a failure among them is then    *)
(* reported: the coordinator returns an error and the row carries the     *)
(* sentinel and a message.                                                *)
(*************************************************************************)
C17_NoCancelNoDrop ==
    /\ [](/\ (cpc \in {"returned", "panicked"} \/ output # <<>>)
                => \A i \in InputParts : TaskFinished(i)
          /\ (cpc = "returned" /\ SomeTaskFailed) => coord_result.kind = "err"
          /\ (output # <<>> /\ SomeTaskFailed)
                => /\ output[1].kind = "Ok"
                   /\ output[1].batch.count[1] = U64_MAX
                   /\ output[1].batch.msg[1] # <<>>)
    /\ [][\A j \in Parts :
            /\ (~TaskFinished(j) /\ pc'[j] = "done")
                  => /\ pc[j] = "sink"
                     /\ DOMAIN partitioned_writer[j] = {}
            /\ (~TaskFinished(j) /\ TaskFailed(j)')
                  => /\ pc[j] \in {"start", "pull", "open", "write", "flush"}
                     /\ \A i \in Parts \ {j} :
                           /\ pc'[i] = pc[i]
                           /\ join_result'[i] = join_result[i]
                           /\ partitioned_writer'[i] = partitioned_writer[i]
            /\ (TaskFinished(j) /\ pc'[j] # pc[j]) => FALSE]_vars

C17_Witness ==
    /\ TaskFailed(0)
    /\ pc[1] = "flush"
    /\ row_count[1] > 0
    /\ cpc = "join"
    /\ output = <<>>

\* the batches (by number) of which writer w holds rows
BatchesIn(w) == { w.rows[n].b : n \in 1..Len(w.rows) }
\* the batches task i has handed to a writer so far
HandedOver(i) ==
    1..(IF pc[i] \in {"open", "write"} THEN fetched[i] - 1 ELSE fetched[i])
InLoop(i) == pc[i] \in {"pull", "open", "write"}

(*************************************************************************)
(* C18: a writer task opens a writer for a descriptor only when the first *)
(* batch of that descriptor arrives and holds at most one writer per      *)
(* descriptor: a writer is opened only for a descriptor that has none and *)
(* on a path not created before, a batch whose descriptor has a writer    *)
(* goes to that writer, every writer of the map has its own descriptor's  *)
(* path and holds the batches met for it, and the number of files the     *)
(* task has created is the number of its writers.                         *)
(*************************************************************************)
C18_LazyOneWriterPerDescriptor ==
    \A i \in Parts :
        LET map == partitioned_writer[i]
        IN /\ pc[i] = "open"
                => /\ partition_desc[i] \notin DOMAIN map
                   /\ file_absolute_path[i] \notin created
           /\ pc[i] = "write" => partition_desc[i] \in DOMAIN map
           /\ InLoop(i) =>
                /\ \A b \in HandedOver(i) :
                      Cardinality({ d \in DOMAIN map : b \in BatchesIn(map[d]) }) = 1
                /\ \A d \in DOMAIN map :
                      /\ \E v \in PartVals : /\ d = DescOfValue(v)
                                             /\ map[d].path = PathOf(v, i)
                      /\ map[d].path \in created
                      /\ BatchesIn(map[d]) \subseteq HandedOver(i)
                      /\ BatchesIn(map[d]) = {}
                            => pc[i] = "write" /\ partition_desc[i] = d
                /\ Cardinality({ v \in PartVals : PathOf(v, i) \in created })
                      = Cardinality(DOMAIN map)

C18_Witness ==
    \E i \in Parts :
        /\ pc[i] = "pull"
        /\ fetched[i] = 2
        /\ Cardinality(DOMAIN partitioned_writer[i]) = 1
        /\ \E d \in DOMAIN partitioned_writer[i] :
              BatchesIn(partitioned_writer[i][d]) = {1, 2}

(*************************************************************************)
(* C19: within a writer task the batches are written in the order of      *)
(* their arrival, each handed to its writer whole before the next is      *)
(* read, so the rows of each file are in the order of their arrival.      *)
(*************************************************************************)
C19_ArrivalOrder ==
    \A i \in Parts :
        /\ pc[i] = "pull" => batch[i] = <<>>
        /\ InLoop(i) =>
             \A b \in HandedOver(i) :
                \E d \in DOMAIN partitioned_writer[i] :
                    b \in BatchesIn(partitioned_writer[i][d])
        /\ \A d \in DOMAIN partitioned_writer[i] :
              LET rows == partitioned_writer[i][d].rows
              IN /\ \A m, n \in 1..Len(rows) :
                       m < n => \/ rows[m].b < rows[n].b
                                \/ /\ rows[m].b = rows[n].b
                                   /\ rows[m].k < rows[n].k
                 /\ \A n \in 1..Len(rows) :
                       IF rows[n].k = 1
                       THEN n = 1 \/ rows[n - 1].b < rows[n].b
                       ELSE /\ n > 1
                            /\ rows[n - 1].b = rows[n].b
                            /\ rows[n - 1].k = rows[n].k - 1

C19_Witness ==
    \E i \in Parts :
        /\ pc[i] = "pull"
        /\ \E d \in DOMAIN partitioned_writer[i] :
              LET rows == partitioned_writer[i][d].rows
              IN /\ Len(rows) = 4
                 /\ rows[1].b = 1 /\ rows[2].b = 1
                 /\ rows[3].b = 2 /\ rows[4].b = 2

\* the merge nodes of the plan, one per group
GroupsOf(node) ==
    LET plan == MergedPlanOf(node)
    IN IF plan.op = "UnionExec" THEN plan.inputs ELSE <<plan>>
\* the fragments (by index) read by a merge node
InGroup(node) == { node.inputs[n] : n \in 1..Len(node.inputs) }

(*************************************************************************)
(* C20: the scan planner partitions the fragments into groups by          *)
(* descriptor: every fragment is in exactly one group, two fragments are  *)
(* in the same group exactly when their descriptors are equal, there is   *)
(* one MergeParquetExec per group, and the groups are combined by a       *)
(* UnionExec exactly when there is more than one.                         *)
(*************************************************************************)
C20_GroupsByDescriptor ==
    spc \in {"merged", "filtered", "planned", "executed"} =>
        LET frs == scan_conf.flatten_conf
            groups == GroupsOf(exec)
            descs == { partition_desc_from_file_scan_config(frs[n]) :
                         n \in 1..Len(frs) }
        IN /\ \A g \in 1..Len(groups) :
                 /\ groups[g].op = "MergeParquetExec"
                 /\ InGroup(groups[g]) # {}
                 /\ InGroup(groups[g]) \subseteq 1..Len(frs)
                 /\ Distinct(groups[g].inputs)
           /\ \A n \in 1..Len(frs) :
                 Cardinality({ g \in 1..Len(groups) :
                                 n \in InGroup(groups[g]) }) = 1
           /\ \A m, n \in 1..Len(frs) :
                 (\E g \in 1..Len(groups) : {m, n} \subseteq InGroup(groups[g]))
                    <=> partition_desc_from_file_scan_config(frs[m])
                          = partition_desc_from_file_scan_config(frs[n])
           /\ Len(groups) = Cardinality(descs)
           /\ (MergedPlanOf(exec).op = "UnionExec") <=> (Cardinality(descs) > 1)

C20_Witness ==
    /\ spc = "merged"
    /\ Len(scan_conf.flatten_conf) = 2
    /\ scan_conf.flatten_conf[1].region = scan_conf.flatten_conf[2].region
    /\ scan_conf.flatten_conf[1] # scan_conf.flatten_conf[2]
    /\ exec.op = "MergeParquetExec"
    /\ exec.inputs = <<1, 2>>

PlanBuilt == spc \in {"merged", "filtered", "planned", "executed"}
\* whether the field called name is nullable in schema
NullableIn(schema, name) ==
    \E n \in 1..Len(schema) : schema[n].name = name /\ schema[n].nullable
\* whether the field called name is nullable in a fragment among S
NullableInFragments(S, name) ==
    \E n \in S : name \in scan_conf.flatten_conf[n].nullable

(*************************************************************************)
(* C21, as stated: in the schema handed to the merge reader of a group, a *)
(* field is nullable exactly when it is nullable in the base merged       *)
(* schema or in at least one fragment of that group.                      *)
(*************************************************************************)
C21_WidenedPerGroup ==
    PlanBuilt =>
        LET groups == GroupsOf(exec)
            base == BaseMergedSchema(scan_conf)
        IN \A g \in 1..Len(groups) :
              /\ SchemaNames(groups[g].schema) = SchemaNames(base)
              /\ \A n \in 1..Len(base) :
                    groups[g].schema[n].nullable
                       <=> \/ base[n].nullable
                           \/ NullableInFragments(InGroup(groups[g]),
                                                  base[n].name)

(*************************************************************************)
(* C21, amended: every group's merge reader is handed the same schema,    *)
(* in which a field is nullable exactly when it is nullable in the base   *)
(* merged schema or in at least one fragment of the scan, of whichever    *)
(* group; a field nullable in the base schema stays nullable.             *)
(*************************************************************************)
C21_WidenedAcrossScan ==
    PlanBuilt =>
        LET groups == GroupsOf(exec)
            base == BaseMergedSchema(scan_conf)
            all == 1..Len(scan_conf.flatten_conf)
        IN \A g \in 1..Len(groups) :
              /\ SchemaNames(groups[g].schema) = SchemaNames(base)
              /\ \A n \in 1..Len(base) :
                    /\ groups[g].schema[n].nullable
                          <=> \/ base[n].nullable
                              \/ NullableInFragments(all, base[n].name)
                    /\ base[n].nullable => groups[g].schema[n].nullable

C21_Witness ==
    /\ spc = "merged"
    /\ Len(GroupsOf(exec)) = 2
    /\ NullableIn(BaseMergedSchema(scan_conf), "v")
    /\ ~NullableIn(BaseMergedSchema(scan_conf), "op")
    /\ NullableInFragments({1}, "op")
    /\ ~NullableInFragments({2}, "op")
    /\ \A g \in 1..2 : /\ NullableIn(GroupsOf(exec)[g].schema, "op")
                       /\ NullableIn(GroupsOf(exec)[g].schema, "v")

(*************************************************************************)
(* C25: the scan planner returns a plan or an error value for every set   *)
(* of fragments, the empty set included: it never panics while selecting  *)
(* the single group or building the union.                                *)
(*************************************************************************)
C25_PlannerNeverPanics == spc # "panicked"

(*************************************************************************)
(* C23: every path passed to a commit_data call is that of a file whose   *)
(* writer had been flushed and closed successfully when the call was      *)
(* issued; a file that is unflushed, unclosed, or whose flush/close       *)
(* failed, is never registered.                                           *)
(*************************************************************************)
C23_OnlyClosedFilesCommitted ==
    [][calls' # calls =>
          LET call == calls'[Len(calls')]
          IN \A n \in 1..Len(call.files) :
                /\ call.files[n] \in closed
                /\ call.files[n] \in created]_vars

C23_Witness ==
    /\ Len(calls) = 1
    /\ calls[1] \in committed
    /\ Len(calls[1].files) = 2
    /\ \A n \in 1..2 : calls[1].files[n] \in closed
    /\ created = closed

\* the paths of task i among S
PathsOfTask(S, i) == { path \in S : \E v \in PartVals : path = PathOf(v, i) }
\* every path held by the accumulator
AccPaths ==
    UNION { { acc[d].files[n] : n \in 1..Len(acc[d].files) } : d \in DOMAIN acc }
\* task i was spawned and its upstream partition has yielded no batch
NoBatchYet(i) ==
    /\ i \in InputParts
    /\ pc[i] \in {"pull", "sink", "locked", "flush", "done"}
    /\ fetched[i] = 0

(*************************************************************************)
(* C26: a writer task whose upstream partition yields no batch opens no   *)
(* writer, creates no file, leaves the accumulator as it is and returns   *)
(* the row count 0.  When every upstream partition is empty, or the input *)
(* has no partition, the coordinator makes no commit_data call and the    *)
(* sink reports success: count 0 and an empty message.                    *)
(*************************************************************************)
C26_EmptyUpstream ==
    /\ \A i \in Parts :
          NoBatchYet(i) =>
              /\ pc[i] \in {"pull", "sink", "done"}
              /\ DOMAIN partitioned_writer[i] = {}
              /\ row_count[i] = 0
              /\ PathsOfTask(created, i) = {}
              /\ PathsOfTask(AccPaths, i) = {}
              /\ pc[i] = "done" => join_result[i] = OkResult(0)
    /\ (AllTasksOk /\ \A i \in InputParts : fetched[i] = 0) =>
          /\ created = {}
          /\ acc = EmptyMap
          /\ calls = <<>>
          /\ cpc # "panicked"
          /\ cpc = "returned" => coord_result = OkResult(0)
          /\ output # <<>> =>
                output[1] = [kind |-> "Ok", batch |-> make_sink_batch(0, <<>>)]

C26_Witness ==
    /\ num_input_partitions = NumParts
    /\ \A i \in Parts : pc[i] = "done" /\ fetched[i] = 0
    /\ stream_ended
    /\ calls = <<>>
    /\ output[1].batch.count = <<0>>

\* every writer task has ended, the coordinator has ended and the stream
\* has emitted its row
SinkFinished ==
    /\ \A i \in InputParts : TaskFinished(i)
    /\ cpc \in {"returned", "panicked"}
    /\ lock = NoTask
    /\ Len(output) = 1

(*************************************************************************)
(* C24: the sink cannot deadlock on the accumulator lock and always       *)
(* finishes: with upstream streams that end or fail, awaited calls that   *)
(* return and fair scheduling, once execute has returned the stream every *)
(* writer task terminates, the coordinator terminates and the stream      *)
(* emits its single row.  execute_result stays "stream" once set, so the  *)
(* formula says that a sink that was executed does finish.                *)
(*************************************************************************)
C24_SinkFinishes == []<>(execute_result # "stream" \/ SinkFinished)

C24_Witness ==
    /\ SinkFinished
    /\ num_input_partitions = NumParts
    /\ AllTasksOk
    /\ \A i \in Parts : Cardinality(PathsOfTask(closed, i)) = 2
    /\ \A d \in DOMAIN acc : Len(acc[d].files) = 2
    /\ coord_result.kind = "ok"

(*************************************************************************)
(* ProjectionStream (lakesoul-io, projection/mod.rs).                     *)
(*************************************************************************)
\* Result<RecordBatch>
OkBatch(b) == [kind |-> "Ok", batch |-> b]
ErrItem(e) == [kind |-> "Err", error |-> e]

\* the values of a column: a value or NULL
ProjValues == {"a", Null}
\* the batches the input can yield: one column, 0..MaxProjRows rows
InputBatches ==
    UNION { { [num_rows |-> n, columns |-> <<col>>] :
                col \in [1..n -> ProjValues] } : n \in 0..MaxProjRows }
InputError == DFError("External", <<"input failed">>)
\* the items of the input stream
InputItems == { OkBatch(b) : b \in InputBatches } \cup {ErrItem(InputError)}

\* physical expressions: a column by index, a literal, the cast of a
\* column to a number
Column(index) == [expr |-> "Column", index |-> index]
Literal(v) == [expr |-> "Literal", value |-> v]
CastExpr(index) == [expr |-> "CastExpr", index |-> index]
ExprLists ==
    { <<>>, <<Column(1)>>, <<CastExpr(1)>>, <<Literal("a")>>,
      <<Column(1), Literal("a")>> }
\* schemas, as the nullability of their fields
ProjSchemas ==
    { <<>>, <<[nullable |-> TRUE]>>, <<[nullable |-> FALSE]>>,
      <<[nullable |-> TRUE], [nullable |-> FALSE]>> }

\* whether the array holds a value that is not a number
NotCastable(array) == \E k \in 1..Len(array) : array[k] = "a"

\* PhysicalExpr::evaluate: a ColumnarValue (array or scalar) or an error
evaluate(e, record_batch) ==
    CASE e.expr = "Column" ->
           IF e.index <= Len(record_batch.columns)
           THEN [kind |-> "Ok", array |-> TRUE,
                 data |-> record_batch.columns[e.index]]
           ELSE ErrItem(DFError("Internal", <<"column index out of bounds">>))
      [] e.expr = "CastExpr" ->
           IF NotCastable(record_batch.columns[e.index])
           THEN ErrItem(DFError("ArrowError", <<"cast error">>))
           ELSE [kind |-> "Ok", array |-> TRUE,
                 data |-> record_batch.columns[e.index]]
      [] e.expr = "Literal" ->
           [kind |-> "Ok", array |-> FALSE, data |-> e.value]

\* ColumnarValue::into_array(num_rows): a scalar is repeated num_rows times
into_array(v, n) == IF v.array THEN v.data ELSE [k \in 1..n |-> v.data]

RECURSIVE EvaluateAll(_, _, _)
\* .map(evaluate .. into_array).collect::<Result<Vec<_>>>() from the n-th
\* expression on: the arrays, or the first error
EvaluateAll(exprs, record_batch, n) ==
    IF n > Len(exprs) THEN [kind |-> "Ok", arrays |-> <<>>]
    ELSE LET v == evaluate(exprs[n], record_batch)
         IN IF v.kind = "Err" THEN v
            ELSE LET rest == EvaluateAll(exprs, record_batch, n + 1)
                 IN IF rest.kind = "Err" THEN rest
                    ELSE [kind |-> "Ok",
                          arrays |-> <<into_array(v, record_batch.num_rows)>>
                                       \o rest.arrays]

HasNull(array) == \E k \in 1..Len(array) : array[k] = Null

\* RecordBatch::try_new_with_options(schema, columns, options), with
\* options.row_count = row_count_opt
try_new_with_options(schema, columns, row_count_opt) ==
    IF Len(schema) # Len(columns)
    THEN ErrItem(DFError("ArrowError", <<"number of columns">>))
    ELSE IF ~row_count_opt.some /\ columns = <<>>
    THEN ErrItem(DFError("ArrowError", <<"no row count and no column">>))
    ELSE LET rows == IF row_count_opt.some THEN row_count_opt.value
                     ELSE Len(columns[1])
         IN IF \E k \in 1..Len(columns) : Len(columns[k]) # rows
            THEN ErrItem(DFError("ArrowError", <<"column length">>))
            ELSE IF \E k \in 1..Len(columns) :
                       ~schema[k].nullable /\ HasNull(columns[k])
            THEN ErrItem(DFError("ArrowError", <<"null in non-nullable">>))
            ELSE OkBatch([num_rows |-> rows, columns |-> columns])

\* RecordBatch::try_new(schema, columns)
try_new(schema, columns) == try_new_with_options(schema, columns, None)

\* batch_project calling try_new also when there is no array
batch_project_try_new(self, record_batch) ==
    LET r == EvaluateAll(self.expr, record_batch, 1)
    IN IF r.kind = "Err" THEN r ELSE try_new(self.schema, r.arrays)

\* ProjectionStream::batch_project
batch_project(self, record_batch) ==
    LET r == EvaluateAll(self.expr, record_batch, 1)
    IN IF r.kind = "Err" THEN r
       ELSE IF r.arrays = <<>>
       THEN try_new_with_options(self.schema, r.arrays, Some(record_batch.num_rows))
       ELSE try_new(self.schema, r.arrays)

\* the closure of poll_next, on what the input's poll is Ready with
MapReady(self, x) ==
    IF x.some /\ x.value.kind = "Ok"
    THEN Some(batch_project(self, x.value.batch))
    ELSE x

\* a ProjectionStream over an input stream; its schema has one field per
\* expression
ProjStart ==
    /\ ppc = "idle"
    /\ \E schema \in ProjSchemas, expr \in ExprLists, len \in 0..MaxItems :
       \E items \in [1..len -> InputItems] :
          /\ Len(schema) = Len(expr)
          /\ projection_stream' = [schema |-> schema, expr |-> expr]
          /\ proj_input' = items
    /\ ppc' = "open"
    /\ UNCHANGED <<proj_polled, proj_yielded, last_poll>>
    /\ UNCHANGED <<writeVars, scanVars>>

\* poll_next when the input is not ready: Poll::Pending is passed on
PollPending ==
    /\ ppc = "open"
    /\ last_poll' = "Pending"
    /\ UNCHANGED <<ppc, projection_stream, proj_input, proj_polled,
                   proj_yielded>>
    /\ UNCHANGED <<writeVars, scanVars>>

\* poll_next when the input is ready, with its next item or with None
PollReady ==
    /\ ppc = "open"
    /\ last_poll' = "Ready"
    /\ IF proj_input = <<>>
       THEN /\ proj_yielded' = Append(proj_yielded,
                                      MapReady(projection_stream, None))
            /\ ppc' = "ended"
            /\ UNCHANGED <<proj_input, proj_polled>>
       ELSE /\ proj_yielded' = Append(proj_yielded,
                                      MapReady(projection_stream,
                                               Some(Head(proj_input))))
            /\ proj_polled' = Append(proj_polled, Head(proj_input))
            /\ proj_input' = Tail(proj_input)
            /\ UNCHANGED ppc
    /\ UNCHANGED projection_stream
    /\ UNCHANGED <<writeVars, scanVars>>

ProjNext == ProjStart \/ PollPending \/ PollReady

ProjSpec == Init /\ [][ProjNext]_vars

\* poll_next has returned one Ready value per input item, and None at the
\* end of the input and only then; errors and the end come through as is
PassesThrough ==
    /\ Len(proj_yielded)
          = Len(proj_polled) + (IF ppc = "ended" THEN 1 ELSE 0)
    /\ \A n \in 1..Len(proj_polled) :
          /\ proj_yielded[n].some
          /\ proj_polled[n].kind = "Err"
                => proj_yielded[n] = Some(proj_polled[n])
    /\ ppc = "ended" => /\ proj_yielded[Len(proj_yielded)] = None
                        /\ proj_input = <<>>
\* the projection of record_batch cannot succeed: a cast fails, or a NULL
\* would be in a field that is not nullable
ProjectionFails(self, record_batch) ==
    \/ \E k \in 1..Len(self.expr) :
          /\ self.expr[k].expr = "CastExpr"
          /\ NotCastable(record_batch.columns[self.expr[k].index])
    \/ \E k \in 1..Len(self.expr) :
          /\ ~self.schema[k].nullable
          /\ self.expr[k].expr \in {"Column", "CastExpr"}
          /\ HasNull(record_batch.columns[self.expr[k].index])

(*************************************************************************)
(* C22, as stated: ProjectionStream yields one item per input item, in    *)
(* order: for each input batch a batch with the same number of rows (also *)
(* with an empty expression list), and an input error or the end of the   *)
(* input unchanged.                                                       *)
(*************************************************************************)
C22_OneBatchPerBatch ==
    /\ PassesThrough
    /\ \A n \in 1..Len(proj_polled) :
          proj_polled[n].kind = "Ok"
             => /\ proj_yielded[n].value.kind = "Ok"
                /\ proj_yielded[n].value.batch.num_rows
                      = proj_polled[n].batch.num_rows

(*************************************************************************)
(* C22, amended: ProjectionStream yields one item per input item, in      *)
(* order: for each input batch either a batch with the same number of     *)
(* rows and one column per expression (also with an empty expression      *)
(* list) or, when the projection of that batch fails, an error; an input  *)
(* error or the end of the input comes through unchanged.                 *)
(*************************************************************************)
C22_OneItemPerBatch ==
    /\ PassesThrough
    /\ \A n \in 1..Len(proj_polled) :
          proj_polled[n].kind = "Ok"
             => LET out == proj_yielded[n].value
                    fails == ProjectionFails(projection_stream,
                                             proj_polled[n].batch)
                IN /\ (out.kind = "Err") <=> fails
                   /\ out.kind = "Ok"
                         => /\ out.batch.num_rows
                                  = proj_polled[n].batch.num_rows
                            /\ Len(out.batch.columns)
                                  = Len(projection_stream.expr)

C22_Witness ==
    /\ ppc = "ended"
    /\ projection_stream.expr = <<>>
    /\ Len(proj_polled) = 2
    /\ proj_polled[1].kind = "Ok"
    /\ proj_polled[1].batch.num_rows = 2
    /\ proj_polled[2].kind = "Err"
    /\ proj_yielded =
          << Some(OkBatch([num_rows |-> 2, columns |-> <<>>])),
             Some(proj_polled[2]), None >>

=============================================================================
